---- MODULE Spec2Model ----
(***************************************************************************)
(* A model of the concurrent K-tree of andrewtrotman/parakeet.             *)
(*                                                                         *)
(* Vectors are one-dimensional.  A float is an exact rational <<n, d>>     *)
(* with d > 0, kept in lowest terms; <<0, 0>> is NaN and <<m, 0>> with     *)
(* m > 0 is m times FLT_MAX / 2 (so <<2, 0>> is FLT_MAX).  Rounding of     *)
(* float arithmetic is not modelled; rounding of the text format is.       *)
(*                                                                         *)
(* The arena is the sequence nodes: a node pointer is an index into it     *)
(* and 0 is nullptr.  Nothing is ever removed from the arena.              *)
(***************************************************************************)
EXTENDS Integers, Sequences, FiniteSets, TLC

(***************************************************************************)
(* Bounds of the model.                                                    *)
(***************************************************************************)
MaxThreads == 2        \* largest thread_count given to the build driver
MaxJobs == 4           \* longest work list that several threads share
MaxSoloJobs == 8       \* longest work list that one thread runs alone
MaxValue == 1          \* input vectors are drawn from 0 .. MaxValue
MaxChildren == 2       \* tree_order, the branching factor of the tree
MaxPoint == 3          \* a child of a node that is split is at 0 .. MaxPoint

(***************************************************************************)
(* Program constants.                                                      *)
(***************************************************************************)
FloatResolutionInverse == 1000000   \* 1 / node::float_resolution
SignificantDigits == 6              \* default precision of std::ostream

VARIABLES nodes, root, split_count, work_list, has_been_processed,
          thread_count, pc, index, data, context, path, child_1, child_2,
          my_slot, seen, got, phase, stream, input, loaded, loaded_root,
          frame

vars == <<nodes, root, split_count, work_list, has_been_processed,
          thread_count, pc, index, data, context, path, child_1, child_2,
          my_slot, seen, got, phase, stream, input, loaded,
          loaded_root, frame>>

Threads == 1 .. MaxThreads
Values == 0 .. MaxValue
nullptr == 0

(***************************************************************************)
(* Floats.                                                                 *)
(***************************************************************************)
\* A local of the source gets its value once, where it is set, and is read
\* any number of times after: rest of the value, worked out once.
local(value, rest(_)) == CHOOSE result \in {rest(it) : it \in {value}} : TRUE

Abs(x) == IF x < 0 THEN -x ELSE x

Min(a, b) == IF a < b THEN a ELSE b

Gcd[a \in Nat, b \in Nat] == IF b = 0 THEN a ELSE Gcd[b, a % b]

Frac[n \in Int, d \in Int] == LET g == Gcd[Abs(n), d] IN <<n \div g, d \div g>>

\* a float is a fraction in lowest terms, or one of three specials
Float == Int \X Int

NaN == <<0, 0>>
FloatMax == <<2, 0>>
HalfFloatMax == <<1, 0>>
Zero == <<0, 1>>

IsNaN(a) == a[1] = 0 /\ a[2] = 0
IsFinite(a) == a[2] > 0
FromInt(i) == <<i, 1>>

FAdd[a \in Float, b \in Float] ==
    IF IsNaN(a) \/ IsNaN(b) THEN NaN
    ELSE IF ~IsFinite(a) THEN a
    ELSE IF ~IsFinite(b) THEN b
    ELSE Frac[a[1] * b[2] + b[1] * a[2], a[2] * b[2]]

FSub[a \in Float, b \in Float] ==
    IF IsNaN(a) \/ IsNaN(b) THEN NaN
    ELSE IF ~IsFinite(a) THEN a
    ELSE Frac[a[1] * b[2] - b[1] * a[2], a[2] * b[2]]

FMul[a \in Float, b \in Float] ==
    IF IsNaN(a) \/ IsNaN(b) THEN NaN
    ELSE Frac[a[1] * b[1], a[2] * b[2]]

FDivInt[a \in Float, i \in Int] ==
    IF IsNaN(a) THEN NaN
    ELSE IF ~IsFinite(a) THEN a
    ELSE IF i = 0 THEN (IF a[1] = 0 THEN NaN ELSE FloatMax)
    ELSE Frac[a[1], a[2] * i]

FLess[a \in Float, b \in Float] ==
    IF IsNaN(a) \/ IsNaN(b) THEN FALSE
    ELSE IF ~IsFinite(a) THEN (~IsFinite(b) /\ a[1] < b[1])
    ELSE IF ~IsFinite(b) THEN TRUE
    ELSE a[1] * b[2] < b[1] * a[2]

FEqual[a \in Float, b \in Float] == ~IsNaN(a) /\ ~IsNaN(b) /\ a = b

FGreater[a \in Float, b \in Float] == FLess[b, a]

FGeq[a \in Float, b \in Float] == FLess[b, a] \/ FEqual[a, b]

(***************************************************************************)
(* object.h: the vector operations, on vectors of one dimension.           *)
(***************************************************************************)
distance_squared[a \in Float, b \in Float] ==
    LET diff == FSub[a, b] IN FMul[diff, diff]

fused_multiply_add[self \in Float, operand \in Float, constant \in Int] ==
    FAdd[self, FMul[operand, FromInt(constant)]]

fused_subtract_divide[self \in Float, operand \in Float, constant \in Int] ==
    FAdd[self, FDivInt[FSub[operand, self], constant]]

(***************************************************************************)
(* allocator.h: a node is named by its place in the arena.  The leaf of    *)
(* job j is at place j, whichever thread allocates it and whenever; the    *)
(* internal nodes, which are all allocated under the split lock, follow    *)
(* in the order of their allocation.                                       *)
(***************************************************************************)
\* memory that no allocation has handed out
unused ==
    [state |-> "unused", children |-> 0, child |-> <<>>,
     centroid |-> <<0, 1>>, leaves_below_this_point |-> 0]

\* the arena before the first allocation, with room for the leaves of jobs
empty_arena(jobs) == [job \in 1 .. jobs |-> unused]

(***************************************************************************)
(* node.cpp: constructors and the read-only helpers.  A function that      *)
(* reads the tree takes the arena ns it reads from.                        *)
(***************************************************************************)
NoChildren == [which \in 1 .. MaxChildren + 1 |-> nullptr]

\* node::new_node(memory, object *data): a leaf, which has no child array
new_leaf(vector) ==
    [state |-> "unsplit", children |-> 0, child |-> <<>>,
     centroid |-> vector, leaves_below_this_point |-> 1]

\* a wrong new_node, which does not store the first child
childless(first_child) ==
    [state |-> "unsplit", children |-> 0, child |-> NoChildren,
     centroid |-> Zero, leaves_below_this_point |-> 0]

\* node::new_node(memory, node *first_child): an internal node
new_node(first_child) ==
    IF first_child = nullptr
    THEN [state |-> "unsplit", children |-> 0, child |-> NoChildren,
          centroid |-> Zero, leaves_below_this_point |-> 0]
    ELSE [state |-> "unsplit", children |-> 1,
          child |-> [NoChildren EXCEPT ![1] = first_child],
          centroid |-> Zero, leaves_below_this_point |-> 1]

isleaf(n) == n.child = <<>>

number_of_children(n) == Min(n.children, MaxChildren)

\* a wrong closest, which takes the last child whatever the distances are
last_child(ns, me, what) == number_of_children(ns[me]) - 1

closest(ns, me, what) ==
    LET child_count == number_of_children(ns[me])
        RECURSIVE scan(_, _, _)
        scan(which, closest_child, min_distance) ==
            IF which >= child_count THEN closest_child
            ELSE IF ns[me].child[which + 1] # nullptr
            THEN LET distance == distance_squared[what,
                                    ns[ns[me].child[which + 1]].centroid]
                 IN  IF FLess[distance, min_distance]
                     THEN scan(which + 1, which, distance)
                     ELSE scan(which + 1, closest_child, min_distance)
            ELSE scan(which + 1, closest_child, min_distance)
    IN  scan(1, 0, distance_squared[what, ns[ns[me].child[1]].centroid])

\* a wrong compute_mean, which leaves the count of leaves as it finds it
mean_only(n, new_leaf_count, sum) ==
    [n EXCEPT !.centroid = FDivInt[sum, new_leaf_count]]

\* compute_mean, lines 163-164: the node n with its new count and centroid
with_mean(n, new_leaf_count, sum) ==
    [n EXCEPT !.leaves_below_this_point = new_leaf_count,
              !.centroid = FDivInt[sum, new_leaf_count]]

\* node::compute_mean(): the node me as it is after the call
compute_mean(ns, me) ==
    LET child_count == number_of_children(ns[me])
        RECURSIVE sum(_, _, _)
        sum(which, new_leaf_count, centroid) ==
            IF which >= child_count
            THEN with_mean(ns[me], new_leaf_count, centroid)
            ELSE IF ns[me].child[which + 1] # nullptr
            THEN sum(which + 1,
                     new_leaf_count
                       + ns[ns[me].child[which + 1]].leaves_below_this_point,
                     fused_multiply_add[centroid,
                       ns[ns[me].child[which + 1]].centroid,
                       ns[ns[me].child[which + 1]].leaves_below_this_point])
            ELSE sum(which + 1, new_leaf_count, centroid)
    IN  sum(0, 0, Zero)

(***************************************************************************)
(* node::split(memory, child_1_out, child_2_out, initial_first_cluster):   *)
(* the 2-means with Elkan's bounds, over the centroids cs of the           *)
(* max_children + 1 children.  Indices are those of the source; a          *)
(* sequence is read at index + 1.                                          *)
(***************************************************************************)
\* lines 228-241: the second centre is the child closest to the first
second_centre(cs, initial_first_cluster) ==
    LET first == cs[initial_first_cluster + 1]
        RECURSIVE scan(_, _, _)
        scan(which, best_choice, smallest_distance) ==
            IF which > MaxChildren THEN best_choice
            ELSE LET distance == distance_squared[first, cs[which + 1]]
                 IN  IF FLess[distance, smallest_distance]
                     THEN scan(which + 1, which, distance)
                     ELSE scan(which + 1, best_choice, smallest_distance)
    IN  scan(2, 1, distance_squared[first, cs[2]])

\* line 246: old_sum_distance > (1.0 + float_resolution) * new_sum_distance
still_moving(old_sum_distance, new_sum_distance) ==
    IF IsNaN(old_sum_distance) \/ IsNaN(new_sum_distance) THEN FALSE
    ELSE IF ~IsFinite(old_sum_distance)
    THEN IsFinite(new_sum_distance)
           \/ new_sum_distance[1] < old_sum_distance[1]
    ELSE IF ~IsFinite(new_sum_distance) THEN FALSE
    ELSE LET gap == FSub[old_sum_distance, new_sum_distance]
         IN  gap[1] * new_sum_distance[2]
               > (new_sum_distance[1] * gap[2]) \div FloatResolutionInverse

\* lines 266-268: the movement added to the two bounds of child which
bound_shift(assignment, delta, which) ==
    LET other == IF assignment[which + 1] = 0 THEN 1 ELSE 0
    IN  [to_other |-> delta[assignment[other + 1] + 1],
         to_assignment |-> delta[assignment[which + 1] + 1]]

\* lines 290-300: the cluster a child at equal distances is placed in
tie_break(cluster_size, assigned, other) ==
    IF cluster_size[1] < cluster_size[2] THEN 0 ELSE 1

\* lines 269-272: the bounds say that the child stays where it is
is_pruned(to_assignment, to_other, half) ==
    FLess[to_assignment, to_other] \/ FLess[to_assignment, half]

\* lines 277-280: the distance to the other centre, computed when needed
other_distance(exact, to_other, half, centre, vector) ==
    IF FGeq[exact, half] \/ FGeq[exact, to_other]
    THEN distance_squared[centre, vector]
    ELSE to_other

\* lines 285-300: the cluster of a child at the distances exact, exact_other
chosen(cluster_size, mine, other, exact, exact_other) ==
    IF FGreater[exact, exact_other] THEN other
    ELSE IF FEqual[exact, exact_other]
    THEN tie_break(cluster_size, mine, other)
    ELSE mine

\* the variables of the pass after child which, left where it was
kept(s, which, mine, to_assignment, to_other) ==
    [assignment |-> s.assignment,
     distance_to_assignment |->
       [s.distance_to_assignment EXCEPT ![which + 1] = to_assignment],
     distance_to_other |->
       [s.distance_to_other EXCEPT ![which + 1] = to_other],
     cluster_size |-> [s.cluster_size EXCEPT ![mine + 1] = @ + 1],
     new_sum_distance |-> s.new_sum_distance]

\* the variables of the pass after child which, placed at exact distances
placed(s, which, mine, other, exact, exact_other, cluster) ==
    [assignment |-> [s.assignment EXCEPT ![which + 1] = cluster],
     distance_to_assignment |->
       [s.distance_to_assignment EXCEPT ![which + 1] =
          IF FGreater[exact, exact_other] THEN exact_other ELSE exact],
     distance_to_other |->
       [s.distance_to_other EXCEPT ![which + 1] =
          IF FGreater[exact, exact_other] THEN exact ELSE exact_other],
     cluster_size |-> [s.cluster_size EXCEPT ![cluster + 1] = @ + 1],
     new_sum_distance |->
       FAdd[s.new_sum_distance,
            IF FGreater[exact, exact_other] THEN exact_other ELSE exact]]

\* lines 275-303, for a child that is not pruned
place_exact(s, which, mine, other, exact, exact_other) ==
    placed(s, which, mine, other, exact, exact_other,
           chosen(s.cluster_size, mine, other, exact, exact_other))

place(cs, centroid, half, s, which, mine, other, to_other) ==
    local(distance_squared[centroid[mine + 1], cs[which + 1]],
          LAMBDA exact :
            local(other_distance(exact, to_other, half, centroid[other + 1],
                                 cs[which + 1]),
                  LAMBDA exact_other :
                    place_exact(s, which, mine, other, exact, exact_other)))

\* lines 266-304: child which, with its bounds moved
assign_child(cs, centroid, half, s, which, mine, to_assignment, to_other) ==
    IF is_pruned(to_assignment, to_other, half)
    THEN kept(s, which, mine, to_assignment, to_other)
    ELSE place(cs, centroid, half, s, which, mine,
               IF mine = 0 THEN 1 ELSE 0, to_other)

\* lines 266-268: the two bounds of child which, with the movement added
moved_bounds(s, delta, which) ==
    [to_assignment |->
       FAdd[s.distance_to_assignment[which + 1],
            bound_shift(s.assignment, delta, which).to_assignment],
     to_other |->
       FSub[s.distance_to_other[which + 1],
            bound_shift(s.assignment, delta, which).to_other]]

\* lines 261-305: one pass over the children, from child which on
RECURSIVE assign_pass(_, _, _, _, _, _)
assign_pass(cs, centroid, delta, half, s, which) ==
    IF which > MaxChildren THEN s
    ELSE local(moved_bounds(s, delta, which),
               LAMBDA bounds :
                 local(assign_child(cs, centroid, half, s, which,
                                    s.assignment[which + 1],
                                    bounds.to_assignment, bounds.to_other),
                       LAMBDA after :
                         assign_pass(cs, centroid, delta, half, after,
                                     which + 1)))

\* lines 310-320: the mean of the centroids assigned to a cluster
cluster_mean(cs, assignment, cluster_size, cluster) ==
    LET RECURSIVE sum(_, _)
        sum(which, total) ==
            IF which > MaxChildren THEN total
            ELSE sum(which + 1,
                     IF assignment[which + 1] = cluster
                     THEN FAdd[total, cs[which + 1]] ELSE total)
    IN  FDivInt[sum(0, Zero), cluster_size[cluster + 1]]

\* a wrong end of a pass, which leaves the variables of the loop as they are
not_moved(k, s, new_centroid) == k

\* lines 310-332: the variables of the loop after a pass that ended in s
moved(k, s, new_centroid) ==
    [assignment |-> s.assignment,
     distance_to_assignment |-> s.distance_to_assignment,
     distance_to_other |-> s.distance_to_other,
     cluster_size |-> s.cluster_size,
     old_sum_distance |-> k.new_sum_distance,
     new_sum_distance |-> s.new_sum_distance,
     centroid |-> new_centroid,
     delta |-> <<distance_squared[new_centroid[1], k.centroid[1]],
                 distance_squared[new_centroid[2], k.centroid[2]]>>,
     iterations |-> k.iterations + 1]

new_centroids(cs, s) ==
    <<cluster_mean(cs, s.assignment, s.cluster_size, 0),
      cluster_mean(cs, s.assignment, s.cluster_size, 1)>>

after_pass(cs, k, s) ==
    local(new_centroids(cs, s), LAMBDA new_centroid : moved(k, s, new_centroid))

\* lines 254-255: half_distance_between_centroids
half_distance(centroid) ==
    FDivInt[distance_squared[centroid[1], centroid[2]], 4]

\* lines 257-260: the variables of a pass before its first child
pass_start(k) ==
    [assignment |-> k.assignment,
     distance_to_assignment |-> k.distance_to_assignment,
     distance_to_other |-> k.distance_to_other,
     cluster_size |-> <<0, 0>>,
     new_sum_distance |-> Zero]

\* lines 254-305: one pass, from the variables k of the loop
pass(cs, k) ==
    local(half_distance(k.centroid),
          LAMBDA half :
            assign_pass(cs, k.centroid, k.delta, half, pass_start(k), 0))

\* lines 246-333: the loop, from the state k of its variables
RECURSIVE split_loop(_, _)
split_loop(cs, k) ==
    IF ~still_moving(k.old_sum_distance, k.new_sum_distance) THEN k
    ELSE local(pass(cs, k),
               LAMBDA s : local(after_pass(cs, k, s),
                                LAMBDA after : split_loop(cs, after)))

(***************************************************************************)
(* node::split as it was before the bounds were added (node.cpp, lines     *)
(* 1397-1511): both distances are computed for every child in every pass.  *)
(***************************************************************************)
\* lines 1447-1457: the cluster of a child at the two distances
plain_choice(cluster_size, distance_to_first, distance_to_second) ==
    IF FEqual[distance_to_first, distance_to_second]
    THEN (IF cluster_size[1] < cluster_size[2] THEN 0 ELSE 1)
    ELSE IF FLess[distance_to_first, distance_to_second] THEN 0
    ELSE 1

\* lines 1462-1473: the variables of the pass with child which in place_in
plain_placed(s, which, place_in, distance) ==
    [assignment |-> [s.assignment EXCEPT ![which + 1] = place_in],
     cluster_size |-> [s.cluster_size EXCEPT ![place_in + 1] = @ + 1],
     new_sum_distance |-> FAdd[s.new_sum_distance, distance]]

\* lines 1441-1474: child which
plain_child(cs, centroid, s, which) ==
    local(<<distance_squared[centroid[1], cs[which + 1]],
            distance_squared[centroid[2], cs[which + 1]]>>,
          LAMBDA distance_to :
            local(plain_choice(s.cluster_size, distance_to[1],
                               distance_to[2]),
                  LAMBDA place_in :
                    plain_placed(s, which, place_in,
                                 distance_to[place_in + 1])))

\* lines 1439-1474: one pass over the children, from child which on
RECURSIVE plain_pass(_, _, _, _)
plain_pass(cs, centroid, s, which) ==
    IF which > MaxChildren THEN s
    ELSE local(plain_child(cs, centroid, s, which),
               LAMBDA after : plain_pass(cs, centroid, after, which + 1))

\* lines 1476-1493: the variables of the loop after a pass that ended in s
plain_moved(cs, k, s) ==
    [assignment |-> s.assignment,
     cluster_size |-> s.cluster_size,
     old_sum_distance |-> k.new_sum_distance,
     new_sum_distance |-> s.new_sum_distance,
     centroid |-> new_centroids(cs, s)]

\* lines 1434-1494: the loop, from the state k of its variables
RECURSIVE plain_loop(_, _)
plain_loop(cs, k) ==
    IF ~still_moving(k.old_sum_distance, k.new_sum_distance) THEN k
    ELSE local(plain_pass(cs, k.centroid,
                          [assignment |-> k.assignment,
                           cluster_size |-> <<0, 0>>,
                           new_sum_distance |-> Zero], 0),
               LAMBDA s : local(plain_moved(cs, k, s),
                                LAMBDA after : plain_loop(cs, after)))

\* lines 1397-1494: the variables of the plain split when the loop ends
plain_two_means(cs, initial_first_cluster) ==
    plain_loop(cs,
      [assignment |-> [which \in 1 .. MaxChildren + 1 |-> 0],
       cluster_size |-> <<0, 0>>,
       old_sum_distance |-> FloatMax,
       new_sum_distance |-> HalfFloatMax,
       centroid |-> <<cs[initial_first_cluster + 1],
                      cs[second_centre(cs, initial_first_cluster) + 1]>>])

\* lines 181-241: the variables of split before the loop
loop_start(cs, initial_first_cluster) ==
    [assignment |-> [which \in 1 .. MaxChildren + 1 |-> 0],
     distance_to_assignment |->
       [which \in 1 .. MaxChildren + 1 |-> FloatMax],
     distance_to_other |-> [which \in 1 .. MaxChildren + 1 |-> Zero],
     cluster_size |-> <<0, 0>>,
     old_sum_distance |-> FloatMax,
     new_sum_distance |-> HalfFloatMax,
     centroid |-> <<cs[initial_first_cluster + 1],
                    cs[second_centre(cs, initial_first_cluster) + 1]>>,
     delta |-> <<Zero, Zero>>,
     iterations |-> 0]

\* lines 181-241 and the loop: the variables of split when the loop ends
two_means(cs, initial_first_cluster) ==
    local(loop_start(cs, initial_first_cluster),
          LAMBDA k : split_loop(cs, k))

\* a wrong split, which gives none of the children to the new nodes
empty_half(ns, me, goes_to, cluster) == new_node(nullptr)

\* lines 338-342 and 379-389: the node n after it is given, behind the
\* children it has, the children of me that goes_to sends to cluster
filled_over(ns, me, goes_to, cluster, n) ==
    LET RECURSIVE fill(_, _)
        fill(which, to) ==
            IF which > MaxChildren THEN to
            ELSE IF goes_to[which + 1] = cluster
            THEN fill(which + 1,
                   [to EXCEPT
                      !.child[to.children + 1] = ns[me].child[which + 1],
                      !.children = @ + 1])
            ELSE fill(which + 1, to)
    IN  fill(0, n)

\* lines 216-217 and 338-342: the new node that gets the children that
\* goes_to sends to cluster
filled(ns, me, goes_to, cluster) ==
    filled_over(ns, me, goes_to, cluster, new_node(nullptr))

\* a wrong fallback, which keeps the clusters as the 2-means left them
as_clustered(k) == k.assignment

\* lines 368-390: where each child goes, given the variables k that the
\* 2-means ended with
partition(k) ==
    IF k.cluster_size[1] # 0 /\ k.cluster_size[2] # 0
    THEN k.assignment
    ELSE [which \in 1 .. MaxChildren + 1 |-> (which - 1) % 2]

\* line 344: the 2-means ended with two clusters
two_clusters(k) == k.cluster_size[1] # 0 /\ k.cluster_size[2] # 0

\* lines 377-378: the new node n of a split that failed, counted as empty
\* with its slots as they are
emptied(n) == [n EXCEPT !.children = 0]

\* lines 338-342 and 368-390: the new node of cluster, given the variables
\* k that the 2-means ended with
output(ns, me, k, cluster) ==
    IF two_clusters(k) THEN filled(ns, me, k.assignment, cluster)
    ELSE filled_over(ns, me, partition(k), cluster,
                     emptied(filled(ns, me, k.assignment, cluster)))

child_centroids(ns, me) ==
    [which \in 1 .. MaxChildren + 1 |-> ns[ns[me].child[which]].centroid]

\* node::split(memory, child_1_out, child_2_out), line 368: the variables
\* that the 2-means on the children of me ends with
split(ns, me) ==
    local(child_centroids(ns, me), LAMBDA cs : two_means(cs, 0))

\* the spin of lines 362-366 has ended: child[0 .. max_children - 1] are set
all_written(n) == \A which \in 1 .. MaxChildren : n.child[which] # nullptr

\* the arena ns with compute_mean() done on its node me
mean_at(ns, me) ==
    local(ns, LAMBDA arena : [arena EXCEPT ![me] = compute_mean(arena, me)])

\* the arena with the two new nodes of the split of me, which are the last
\* two of the arena
with_outputs(ns, me, k) ==
    Append(Append(ns, output(ns, me, k, 0)), output(ns, me, k, 1))

\* the arena after split(), compute_mean() and compute_mean() on node me,
\* the 2-means having ended with the variables k
halves(ns, me, k) ==
    mean_at(mean_at(with_outputs(ns, me, k), Len(ns) + 1), Len(ns) + 2)

split_and_mean(ns, me) ==
    local(split(ns, me), LAMBDA k : halves(ns, me, k))

(***************************************************************************)
(* node::take_lock and node::release_lock on the tree's split counter.     *)
(* A counter is <<begin, end>>.                                            *)
(***************************************************************************)
\* a wrong take_lock, which succeeds whatever the counters are
always_free(mine, tree) == TRUE

\* a wrong take_lock, which looks at its own copy of the counter only
snapshot_only(mine, tree) == mine[1] = mine[2]

\* lines 415-438: does take_lock succeed, for a caller whose context holds
\* the counter mine while the tree holds the counter tree
lock_is_free(mine, tree) == mine[1] = mine[2] /\ tree = mine

\* a wrong take_lock, which succeeds without counting the split it begins
not_taken(tree) == tree

\* a wrong take_lock, which counts the split it begins twice
taken_twice(tree) == <<tree[1] + 2, tree[2]>>

\* lines 427-443: the counter after a successful take_lock
taken(tree) == <<tree[1] + 1, tree[2]>>

\* a wrong release_lock, which stores the counter without counting the end
not_released(mine) == mine

\* lines 455-456: the counter stored by release_lock
released(mine) == <<mine[1], mine[2] + 1>>

(***************************************************************************)
(* node::normalise_counts, node::text_render and node::deserialise.        *)
(***************************************************************************)
\* a wrong normalise_counts, which leaves the count as it finds it
not_counted(ns, me) == ns

\* normalise_counts, lines 620-627: the count of node me, from its children
counted(ns, me) ==
    LET child_count == number_of_children(ns[me])
        RECURSIVE add(_, _)
        add(who, total) ==
            IF who >= child_count THEN total
            ELSE add(who + 1,
                     total + ns[ns[me].child[who + 1]].leaves_below_this_point)
    IN  [ns EXCEPT ![me].leaves_below_this_point =
           IF isleaf(ns[me]) THEN 1 ELSE add(0, 0)]

\* node::normalise_counts(): the arena after the call on node me
RECURSIVE normalise_counts(_, _)
normalise_counts(ns, me) ==
    LET child_count == number_of_children(ns[me])
        RECURSIVE below(_, _)
        below(arena, who) ==
            IF who >= child_count THEN arena
            ELSE below(normalise_counts(arena, ns[me].child[who + 1]), who + 1)
    IN  counted(below(ns, 0), me)

RECURSIVE Pow10(_)
Pow10(j) == IF j = 0 THEN 1 ELSE 10 * Pow10(j - 1)

\* the decimal exponent of n / d > 0: the e with 10^e <= n / d < 10^(e + 1)
RECURSIVE exponent(_, _, _)
exponent(n, d, e) ==
    IF e >= 0
    THEN IF n >= 10 * d * Pow10(e) THEN exponent(n, d, e + 1) ELSE e
    ELSE IF n * Pow10(-e) >= d THEN e ELSE exponent(n, d, e - 1)

\* long division: the quotient and the remainder of 10^places * n by d,
\* from the quotient q and the remainder r of n by d
RECURSIVE digits(_, _, _, _)
digits(q, r, d, places) ==
    IF places = 0 THEN <<q, r>>
    ELSE digits(10 * q + (10 * r) \div d, (10 * r) % d, d, places - 1)

\* the quotient of the pair qr, rounded to the nearest integer
nearest(qr, d) == IF 2 * qr[2] >= d THEN qr[1] + 1 ELSE qr[1]

\* n / d > 0 rounded to the nearest multiple of 10^-places
rounded(n, d, places) ==
    IF places >= 0
    THEN Frac[nearest(digits(n \div d, n % d, d, places), d), Pow10(places)]
    ELSE Frac[nearest(<<n \div (d * Pow10(-places)),
                        n % (d * Pow10(-places))>>, d * Pow10(-places))
                * Pow10(-places), 1]

\* operator<<(std::ostream &, float) and operator>>(std::istream &, float &):
\* the float that is read back from the text that a float is written as,
\* which keeps SignificantDigits digits of it
written(value) ==
    IF ~IsFinite(value) \/ value[1] = 0 THEN value
    ELSE IF value[1] > 0
    THEN rounded(value[1], value[2],
           SignificantDigits - 1
             - exponent(value[1], value[2],
                        IF value[1] >= value[2] THEN 0 ELSE -1))
    ELSE FSub[Zero, rounded(-value[1], value[2],
           SignificantDigits - 1
             - exponent(-value[1], value[2],
                        IF -value[1] >= value[2] THEN 0 ELSE -1))]

\* text_render, line 681: the line of text that node n is written as
line_of(n) ==
    [children |-> number_of_children(n),
     leaves_below_this_point |-> n.leaves_below_this_point,
     centroid |-> written(n.centroid)]

\* node::text_render(stream): the lines written for node me and below
RECURSIVE text_render(_, _)
text_render(ns, me) ==
    LET child_count == number_of_children(ns[me])
        RECURSIVE below(_, _)
        below(who, text) ==
            IF who >= child_count THEN text
            ELSE below(who + 1,
                       text \o text_render(ns, ns[me].child[who + 1]))
    IN  below(0, <<line_of(ns[me])>>)

\* operator>> at the end of the stream fails and stores zero
next_line(text) ==
    IF text = <<>>
    THEN [children |-> 0, leaves_below_this_point |-> 0, centroid |-> Zero]
    ELSE Head(text)

rest_of(text) == IF text = <<>> THEN text ELSE Tail(text)

\* a wrong deserialise, which does not read the count of leaves
uncounted(line) ==
    [new_node(nullptr) EXCEPT
       !.children = line.children,
       !.centroid = line.centroid]

\* deserialise, lines 658-660 and 665-666: the internal node of a line
internal_of(line) ==
    [new_node(nullptr) EXCEPT
       !.children = line.children,
       !.leaves_below_this_point = line.leaves_below_this_point,
       !.centroid = line.centroid]

\* deserialise, lines 668-669: child which_child of node me is the answer
\* of the call that returned read
linked(sofar, me, which_child, read) ==
    [arena |-> [read.arena EXCEPT ![me].child[which_child + 1] = read.answer],
     answer |-> sofar.answer,
     text |-> read.text]

\* node::deserialise(memory, stream, example_object): the arena with the
\* nodes read from text added to it, the answer, and the text left unread
RECURSIVE deserialise(_, _)
deserialise(arena, text) ==
    IF next_line(text).children = 0
    THEN [arena |-> Append(arena, new_leaf(next_line(text).centroid)),
          answer |-> Len(arena) + 1,
          text |-> rest_of(text)]
    ELSE LET RECURSIVE below(_, _)
             below(which_child, sofar) ==
                 IF which_child >= next_line(text).children THEN sofar
                 ELSE below(which_child + 1,
                            linked(sofar, Len(arena) + 1, which_child,
                                   deserialise(sofar.arena, sofar.text)))
         IN  below(0, [arena |-> Append(arena, internal_of(next_line(text))),
                       answer |-> Len(arena) + 1,
                       text |-> rest_of(text)])

\* ==== state machine ====
(***************************************************************************)
(* The state machine.  A thread runs thread_work(): it claims a job, runs  *)
(* push_back on its vector, and goes on to the next job.  pc[t] is the     *)
(* place of thread t in the code, path[t] the stack of add_to_node calls   *)
(* (node and best_child of each), got[t] the result being returned.        *)
(* Every action makes one access to shared memory, with the local          *)
(* computation around it.                                                  *)
(***************************************************************************)
Running == 1 .. thread_count

\* std::atomic<size_t> children is kept up to this value: the code treats
\* every larger value alike
CounterCap == MaxChildren + 2

top(t) == path[t][Len(path[t])]

pop(t) == SubSeq(path[t], 1, Len(path[t]) - 1)

\* the longest work list that thread_count threads are given
Jobs(threads) == IF threads = 1 THEN MaxSoloJobs ELSE MaxJobs

\* no call of split is being followed step by step
no_frame == [stage |-> "none"]

\* build(): the tree is empty, and threads threads are given the list
Start(threads, list) ==
    /\ root = nullptr
    /\ split_count = <<0, 0>>
    /\ thread_count = threads
    /\ work_list = list
    /\ has_been_processed = [job \in DOMAIN list |-> FALSE]
    /\ nodes = empty_arena(Len(list))
    /\ pc = [t \in Threads |-> "work"]
    /\ index = [t \in Threads |-> 0]
    /\ data = [t \in Threads |-> Zero]
    /\ context = [t \in Threads |-> <<0, 0>>]
    /\ path = [t \in Threads |-> <<>>]
    /\ child_1 = [t \in Threads |-> nullptr]
    /\ child_2 = [t \in Threads |-> nullptr]
    /\ my_slot = [t \in Threads |-> 0]
    /\ seen = [t \in Threads |-> <<Zero, 0>>]
    /\ got = [t \in Threads |-> "success"]
    /\ phase = "build"
    /\ stream = <<>>
    /\ input = <<>>
    /\ loaded = <<>>
    /\ loaded_root = nullptr
    /\ frame = no_frame

Init ==
    \E threads \in 1 .. MaxThreads :
        \E list \in {<<>>} \cup UNION {[1 .. jobs -> Values] :
                                          jobs \in 1 .. Jobs(threads)} :
            Start(threads, list)

tree_vars == <<nodes, root, split_count>>
job_vars == <<work_list, has_been_processed, thread_count>>
after_vars == <<phase, stream, input, loaded, loaded_root, frame>>
call_vars == <<context, path, child_1, child_2, my_slot, seen, got>>

\* thread t was started and is at the place where
At(t, where) == t \in Running /\ pc[t] = where

Goto(t, where) == pc' = [pc EXCEPT ![t] = where]

\* a wrong push_back, which returns whatever its first attempt gives it
never_again(result) == FALSE

\* k_tree::push_back, line 98: the loop goes round again
tries_again(result) == result # "success"

\* a wrong thread_work, which takes every job whether it is claimed or not
every_job(i) == Min(i, Len(work_list))

\* thread_work, lines 452-456: the index that the loop stops at when it
\* starts from index i, which is the first job from there on that no thread
\* has claimed, or the end of the list.  A job that is claimed stays
\* claimed, so the steps over claimed jobs are taken as one.
RECURSIVE next_job(_)
next_job(i) ==
    IF i >= Len(work_list) THEN i
    ELSE IF has_been_processed[i + 1] THEN next_job(i + 1)
    ELSE i

\* thread_work, line 452: where the thread is when its index is i
loop_at(i) == IF i >= Len(work_list) THEN "exit" ELSE "work"

\* attempt_push_back has returned result to push_back, which either goes
\* round its loop or returns to thread_work, which moves to the next job.
\* The locals of the call are dead and are set back to their first values.
Returned(t, result) ==
    /\ got' = [got EXCEPT ![t] = result]
    /\ path' = [path EXCEPT ![t] = <<>>]
    /\ my_slot' = [my_slot EXCEPT ![t] = 0]
    /\ seen' = [seen EXCEPT ![t] = <<Zero, 0>>]
    /\ child_1' = [child_1 EXCEPT ![t] = nullptr]
    /\ child_2' = [child_2 EXCEPT ![t] = nullptr]
    /\ context' = [context EXCEPT ![t] = <<0, 0>>]
    /\ IF tries_again(result)
       THEN /\ Goto(t, "attempt")
            /\ UNCHANGED <<index, data>>
       ELSE /\ Goto(t, loop_at(next_job(index[t] + 1)))
            /\ index' = [index EXCEPT ![t] = next_job(index[t] + 1)]
            /\ data' = [data EXCEPT ![t] = Zero]

\* The threads run the same code on the same list, so a run in which
\* another thread claims the first job is the mirror image of one in which
\* thread 1 does: of the two only the second is kept.
first_claim_is_mine(t) ==
    IF work_list = <<>> THEN TRUE ELSE has_been_processed[1] \/ t = 1

\* thread_work, lines 452-462: go to the next job that no thread has
\* claimed and claim it; the compare-and-swap comes right after the read
Work(t) ==
    /\ At(t, "work")
    /\ first_claim_is_mine(t)
    /\ index' = [index EXCEPT ![t] = next_job(index[t])]
    /\ IF next_job(index[t]) >= Len(work_list)
       THEN /\ Goto(t, "exit")
            /\ UNCHANGED <<has_been_processed, data>>
       ELSE /\ has_been_processed' =
                 [has_been_processed EXCEPT ![next_job(index[t]) + 1] = TRUE]
            /\ data' = [data EXCEPT
                          ![t] = FromInt(work_list[next_job(index[t]) + 1])]
            /\ Goto(t, "attempt")
    /\ UNCHANGED <<tree_vars, work_list, thread_count, after_vars, call_vars>>

\* attempt_push_back, line 36: the context copies the split counter
Attempt(t) ==
    /\ At(t, "attempt")
    /\ context' = [context EXCEPT ![t] = split_count]
    /\ Goto(t, "enter")
    /\ UNCHANGED <<tree_vars, job_vars, after_vars, index, data, path,
                   child_1, child_2, my_slot, seen, got>>

\* a wrong add_to_node, which takes every node for a parent of leaves
always_leaves(ns, me) == "leaf"

\* add_to_node, line 544: what add_to_node does at node me.  Whether the
\* first child of a node is a leaf never changes, so the test is made when
\* the thread gets to the node.
arrived(ns, me) == IF isleaf(ns[ns[me].child[1]]) THEN "leaf" ELSE "descend"

\* add_to_node, lines 547-548: the path with the closest child noted in its
\* last frame and a frame for that child after it
went_down(frames, ns, best_child) ==
    Append([frames EXCEPT ![Len(frames)].best_child = best_child],
           [node |-> ns[frames[Len(frames)].node].child[best_child + 1],
            best_child |-> 0])

deeper(frames, ns, what) ==
    went_down(frames, ns, closest(ns, frames[Len(frames)].node, what))

\* attempt_push_back, lines 44 and 59: read the root
Enter(t) ==
    /\ At(t, "enter")
    /\ IF root = nullptr
       THEN Goto(t, "first_lock") /\ path' = path
       ELSE /\ Goto(t, arrived(nodes, root))
            /\ path' = [path EXCEPT ![t] =
                          <<[node |-> root, best_child |-> 0]>>]
    /\ UNCHANGED <<tree_vars, job_vars, after_vars, index, data, context,
                   child_1, child_2, my_slot, seen, got>>

\* attempt_push_back, lines 49-50: take the lock to make the first root
FirstLock(t) ==
    /\ At(t, "first_lock")
    /\ IF lock_is_free(context[t], split_count)
       THEN /\ split_count' = taken(split_count)
            /\ context' = [context EXCEPT ![t] = taken(context[t])]
            /\ Goto(t, "first_root")
            /\ UNCHANGED <<index, data, path, child_1, child_2, my_slot,
                           seen, got>>
       ELSE /\ Returned(t, "retry")
            /\ UNCHANGED split_count
    /\ UNCHANGED <<nodes, root, job_vars, after_vars>>

\* attempt_push_back, lines 51-52: a leaf and a root with that one child
FirstRoot(t) ==
    /\ At(t, "first_root")
    /\ nodes' = Append([nodes EXCEPT ![index[t] + 1] = new_leaf(data[t])],
                       new_node(index[t] + 1))
    /\ root' = Len(nodes) + 1
    /\ Goto(t, "first_mean")
    /\ UNCHANGED <<split_count, job_vars, after_vars, index, data,
                   call_vars>>

\* attempt_push_back, line 53: root->compute_mean()
FirstMean(t) ==
    /\ At(t, "first_mean")
    /\ nodes' = [nodes EXCEPT ![root] = compute_mean(nodes, root)]
    /\ Goto(t, "first_release")
    /\ UNCHANGED <<root, split_count, job_vars, after_vars, index, data,
                   call_vars>>

\* attempt_push_back, lines 56 and 84: release the lock and return
FirstRelease(t) ==
    /\ At(t, "first_release")
    /\ split_count' = released(context[t])
    /\ Returned(t, "success")
    /\ UNCHANGED <<nodes, root, job_vars, after_vars>>

\* add_to_node, lines 544-549: go down one level, or stop above the leaves
Descend(t) ==
    /\ At(t, "descend")
    /\ path' = [path EXCEPT ![t] = deeper(path[t], nodes, data[t])]
    /\ Goto(t, arrived(nodes, deeper(path[t], nodes, data[t])[Len(path[t]) + 1].node))
    /\ UNCHANGED <<tree_vars, job_vars, after_vars, index, data, context,
                   child_1, child_2, my_slot, seen, got>>

\* a wrong children++, which leaves the counter as it is
not_added(children) == children

\* add_to_leaf, line 482: the counter after children++
fetch_add(children) == Min(children + 1, CounterCap)

\* add_to_leaf, lines 482-484: take a slot
Leaf(t) ==
    /\ At(t, "leaf")
    /\ LET me == top(t).node
       IN  /\ my_slot' = [my_slot EXCEPT ![t] = nodes[me].children]
           /\ nodes' = [nodes EXCEPT ![me].children = fetch_add(@)]
           /\ Goto(t, IF nodes[me].children < MaxChildren
                      THEN "publish" ELSE "cas_state")
    /\ UNCHANGED <<root, split_count, job_vars, after_vars, index, data,
                   context, path, child_1, child_2, seen, got>>

\* add_to_leaf, lines 489-491: fill the slot with a new leaf
Publish(t) ==
    /\ At(t, "publish")
    /\ nodes' = [nodes EXCEPT
                   ![index[t] + 1] = new_leaf(data[t]),
                   ![top(t).node].child[my_slot[t] + 1] = index[t] + 1]
    /\ got' = [got EXCEPT ![t] = "success"]
    /\ Goto(t, "mean")
    /\ UNCHANGED <<root, split_count, job_vars, after_vars, index, data,
                   context, path, child_1, child_2, my_slot, seen>>

\* a wrong add_to_node, which updates the mean whatever the result is
always_updates(did_split) == TRUE

\* add_to_node, line 578: the mean is updated unless the result is retry
updates_mean(did_split) == did_split # "retry"

\* add_to_leaf has returned retry to add_to_node, which hands it up
Retried(t) ==
    IF updates_mean("retry")
    THEN /\ got' = [got EXCEPT ![t] = "retry"]
         /\ Goto(t, "mean")
         /\ UNCHANGED <<index, data, context, path, child_1, child_2,
                        my_slot, seen>>
    ELSE Returned(t, "retry")

\* a wrong add_to_leaf, which sets the state without comparing it
always_wins(n) == TRUE

\* add_to_leaf, lines 498-499: the compare-and-swap of the state succeeds
wins_state(n) == n.state = "unsplit"

\* add_to_leaf, lines 498-500: state the intention to split this node
CasState(t) ==
    /\ At(t, "cas_state")
    /\ IF wins_state(nodes[top(t).node])
       THEN /\ nodes' = [nodes EXCEPT ![top(t).node].state = "split"]
            /\ Goto(t, "leaf_lock")
            /\ UNCHANGED <<index, data, call_vars>>
       ELSE /\ Retried(t)
            /\ nodes' = nodes
    /\ UNCHANGED <<root, split_count, job_vars, after_vars>>

\* add_to_leaf, line 505: take the lock
LeafLock(t) ==
    /\ At(t, "leaf_lock")
    /\ IF lock_is_free(context[t], split_count)
       THEN /\ split_count' = taken(split_count)
            /\ context' = [context EXCEPT ![t] = taken(context[t])]
            /\ Goto(t, "last_slot")
       ELSE /\ Goto(t, "unlock_state")
            /\ UNCHANGED <<split_count, context>>
    /\ UNCHANGED <<nodes, root, job_vars, after_vars, index, data, path,
                   child_1, child_2, my_slot, seen, got>>

\* a wrong add_to_leaf, which leaves the state as it is
not_unsplit(n) == n

\* add_to_leaf, line 510: state = state_unsplit
unsplit(n) == [n EXCEPT !.state = "unsplit"]

\* add_to_leaf, lines 510-511: the lock was not free
UnlockState(t) ==
    /\ At(t, "unlock_state")
    /\ nodes' = [nodes EXCEPT ![top(t).node] = unsplit(@)]
    /\ Retried(t)
    /\ UNCHANGED <<root, split_count, job_vars, after_vars>>

\* add_to_leaf, lines 518-520: the new leaf goes in the last slot
LastSlot(t) ==
    /\ At(t, "last_slot")
    /\ nodes' = [nodes EXCEPT
                   ![index[t] + 1] = new_leaf(data[t]),
                   ![top(t).node].child[MaxChildren + 1] = index[t] + 1]
    /\ my_slot' = [my_slot EXCEPT ![t] = MaxChildren]
    /\ Goto(t, "split")
    /\ UNCHANGED <<root, split_count, job_vars, after_vars, index, data,
                   context, path, child_1, child_2, seen, got>>

\* the split of the node on top of the path, once the spin has ended:
\* add_to_leaf, lines 522-526, and add_to_node, lines 562-565
SplitTop(t) ==
    /\ all_written(nodes[top(t).node])
    /\ nodes' = split_and_mean(nodes, top(t).node)
    /\ child_1' = [child_1 EXCEPT ![t] = Len(nodes) + 1]
    /\ child_2' = [child_2 EXCEPT ![t] = Len(nodes) + 2]
    /\ got' = [got EXCEPT ![t] = "split"]
    /\ Goto(t, "mean")
    /\ UNCHANGED <<root, split_count, job_vars, after_vars, index, data,
                   context, path, my_slot, seen>>

Split(t) == At(t, "split") /\ SplitTop(t)

\* add_to_node, lines 578 and 593: read what the new mean is made from
Mean(t) ==
    /\ At(t, "mean")
    /\ seen' = [seen EXCEPT ![t] =
                  <<nodes[top(t).node].centroid,
                    nodes[top(t).node].leaves_below_this_point>>]
    /\ Goto(t, "mean_write")
    /\ UNCHANGED <<tree_vars, job_vars, after_vars, index, data, context,
                   path, child_1, child_2, my_slot, got>>

\* a wrong add_to_node, whose new mean can start from a stale centroid
stale_bases(t) == {seen[t][1], Zero}

\* add_to_node, line 593: the centroids that the unsynchronised
\* read-modify-write of the centroid can start from: the one read with the
\* count, or the one that is there when the write is made
bases(t) == {seen[t][1], nodes[top(t).node].centroid}

\* add_to_node, lines 593-600: write the mean, count the leaf and return.
\* The centroid is written without synchronisation: it is made from the
\* centroid read before or from the one there now.
MeanWrite(t) ==
    /\ At(t, "mean_write")
    /\ \E base \in bases(t) :
         nodes' = [nodes EXCEPT
           ![top(t).node].centroid =
               fused_subtract_divide[base, data[t], seen[t][2] + 1],
           ![top(t).node].leaves_below_this_point = @ + 1]
    /\ IF Len(path[t]) = 1 /\ got[t] # "split"
       THEN Returned(t, got[t])
       ELSE /\ path' = [path EXCEPT ![t] = pop(t)]
            /\ Goto(t, IF Len(path[t]) = 1 THEN "new_root"
                       ELSE IF got[t] = "split" THEN "replace" ELSE "mean")
            /\ seen' = [seen EXCEPT ![t] = <<Zero, 0>>]
            /\ UNCHANGED <<index, data, context, child_1, child_2, my_slot,
                           got>>
    /\ UNCHANGED <<root, split_count, job_vars, after_vars>>

\* add_to_node, line 556: the first half replaces the child that was split
Replace(t) ==
    /\ At(t, "replace")
    /\ nodes' = [nodes EXCEPT
                   ![top(t).node].child[top(t).best_child + 1] = child_1[t]]
    /\ Goto(t, "append")
    /\ UNCHANGED <<root, split_count, job_vars, after_vars, index, data,
                   call_vars>>

\* add_to_node, lines 557-560: the second half is added at the end
AppendChild(t) ==
    /\ At(t, "append")
    /\ LET me == top(t).node
       IN  /\ nodes' = [nodes EXCEPT
                          ![me].child[nodes[me].children + 1] = child_2[t],
                          ![me].children = @ + 1]
           /\ Goto(t, IF nodes[me].children + 1 > MaxChildren
                      THEN "split_node" ELSE "release")
    /\ UNCHANGED <<root, split_count, job_vars, after_vars, index, data,
                   call_vars>>

SplitNode(t) == At(t, "split_node") /\ SplitTop(t)

\* add_to_node, line 571: the split stops here
Release(t) ==
    /\ At(t, "release")
    /\ split_count' = released(context[t])
    /\ context' = [context EXCEPT ![t] = <<0, 0>>]
    /\ child_1' = [child_1 EXCEPT ![t] = nullptr]
    /\ child_2' = [child_2 EXCEPT ![t] = nullptr]
    /\ got' = [got EXCEPT ![t] = "success"]
    /\ Goto(t, "mean")
    /\ UNCHANGED <<nodes, root, job_vars, after_vars, index, data, path,
                   my_slot, seen>>

\* a wrong attempt_push_back, whose new root gets the first half only
one_child_root(first, second) == new_node(first)

\* attempt_push_back, lines 70-72: the new root over the two halves
root_over(first, second) ==
    [new_node(first) EXCEPT !.child[2] = second, !.children = 2]

\* attempt_push_back, lines 67-76: the arena with the new root at its end
with_new_root(ns, first, second) ==
    mean_at(Append(mean_at(mean_at(ns, first), second),
                   root_over(first, second)),
            Len(ns) + 1)

NewRoot(t) ==
    /\ At(t, "new_root")
    /\ nodes' = with_new_root(nodes, child_1[t], child_2[t])
    /\ root' = Len(nodes) + 1
    /\ Goto(t, "root_release")
    /\ UNCHANGED <<split_count, job_vars, after_vars, index, data,
                   call_vars>>

\* attempt_push_back, lines 80-84
RootRelease(t) ==
    /\ At(t, "root_release")
    /\ split_count' = released(context[t])
    /\ Returned(t, "success")
    /\ UNCHANGED <<nodes, root, job_vars, after_vars>>

(***************************************************************************)
(* build(), after the threads are joined: normalise, then write the tree;  *)
(* load(): read the tree back.                                             *)
(***************************************************************************)
joined == \A t \in Running : pc[t] = "exit"

\* k_tree::normalise_counts(): root.load()->normalise_counts(), whatever
\* the root is.  On a tree with no root the call is made through a null
\* pointer and reads the counter of no node: the run is killed there, or
\* goes on with what it read, which the model takes to be no child.
Normalise ==
    /\ phase = "build"
    /\ joined
    /\ IF root = nullptr
       THEN /\ nodes' = nodes
            /\ phase' \in {"crashed", "normalised"}
       ELSE /\ nodes' = normalise_counts(nodes, root)
            /\ phase' = "normalised"
    /\ UNCHANGED <<root, split_count, job_vars, pc, index, data, call_vars,
                   stream, input, loaded, loaded_root, frame>>

\* k_tree::text_render(stream)
Render ==
    /\ phase = "normalised"
    /\ stream' = IF root # nullptr THEN text_render(nodes, root) ELSE <<>>
    /\ phase' = "rendered"
    /\ UNCHANGED <<tree_vars, job_vars, pc, index, data, call_vars,
                   input, loaded, loaded_root, frame>>

\* the texts that a reader can be given: the text written, or the text
\* that is left of it when the file is cut short after some of its lines
cut_short(text) == {SubSeq(text, 1, kept_lines) : kept_lines \in 0 .. Len(text)}

\* k_tree::deserialise(memory, stream, example_object)
Load ==
    /\ phase = "rendered"
    /\ \E text \in cut_short(stream) :
         /\ input' = text
         /\ loaded' = deserialise(<<>>, text).arena
         /\ loaded_root' = deserialise(<<>>, text).answer
    /\ phase' = "loaded"
    /\ UNCHANGED <<tree_vars, job_vars, pc, index, data, call_vars, stream,
                   frame>>

\* thread_work: the next step of thread t
Step(t) ==
    \/ Work(t) \/ Attempt(t) \/ Enter(t)
    \/ FirstLock(t) \/ FirstRoot(t) \/ FirstMean(t) \/ FirstRelease(t)
    \/ Descend(t) \/ Leaf(t) \/ Publish(t) \/ CasState(t)
    \/ LeafLock(t) \/ UnlockState(t) \/ LastSlot(t) \/ Split(t)
    \/ Mean(t) \/ MeanWrite(t)
    \/ Replace(t) \/ AppendChild(t) \/ SplitNode(t) \/ Release(t)
    \/ NewRoot(t) \/ RootRelease(t)

Next ==
    \/ \E t \in Threads : Step(t)
    \/ Normalise \/ Render \/ Load

Spec == Init /\ [][Next]_vars

\* Every thread that can take a step takes one in the end: the scheduler
\* leaves no runnable thread waiting for ever.
FairSpec == Spec /\ \A t \in Threads : WF_vars(Step(t))

\* a list long enough for two leaf-level nodes to be full at once
LongList == <<0, 0, 1, 0, 1, 0>>

LongInit == Start(MaxThreads, LongList)

LongSpec == LongInit /\ [][Next]_vars

(***************************************************************************)
(* node::split, statement by statement, on a full node of any children.    *)
(* frame holds the locals of the call: cs the centroids of the children,   *)
(* k the variables of the loop, s those of the pass, which the child the   *)
(* pass is at.                                                             *)
(***************************************************************************)
\* the centroids a child can have: atof gives a number or a NaN
Points == {FromInt(value) : value \in 0 .. MaxPoint} \cup {NaN}

\* the children of a full node are leaves, or nodes over one leaf each
child_of_full(cs, upper, which) ==
    IF upper THEN MaxChildren + 1 + which ELSE which

\* an arena that holds a full node, which is its last node, over children
\* of the centroids cs
full_arena(cs, upper) ==
    LET leaves == [which \in 1 .. MaxChildren + 1 |-> new_leaf(cs[which])]
        over == [which \in 1 .. MaxChildren + 1 |->
                   [new_node(which) EXCEPT !.centroid = cs[which]]]
        full == [state |-> "split", children |-> MaxChildren + 1,
                 child |-> [which \in 1 .. MaxChildren + 1 |->
                              child_of_full(cs, upper, which)],
                 centroid |->
                   cluster_mean(cs, [which \in 1 .. MaxChildren + 1 |-> 0],
                                <<MaxChildren + 1, 0>>, 0),
                 leaves_below_this_point |-> MaxChildren + 1]
    IN  IF upper THEN Append(leaves \o over, full) ELSE Append(leaves, full)

\* the locals of split at stage, in the call on node me
in_frame(stage, me, cs, k, s, which, half) ==
    [stage |-> stage, me |-> me, cs |-> cs, k |-> k, s |-> s,
     which |-> which, half |-> half]

\* thread 1 holds the split lock and calls split on the full node
SplitStart(cs, upper) ==
    /\ nodes = full_arena(cs, upper)
    /\ root = Len(full_arena(cs, upper))
    /\ split_count = <<1, 0>>
    /\ thread_count = 1
    /\ work_list = <<>>
    /\ has_been_processed = <<>>
    /\ pc = [t \in Threads |->
               IF t # 1 THEN "work" ELSE IF upper THEN "split_node"
               ELSE "split"]
    /\ index = [t \in Threads |-> 0]
    /\ data = [t \in Threads |-> Zero]
    /\ context = [t \in Threads |-> <<0, 0>>]
    /\ path = [t \in Threads |->
                 IF t = 1
                 THEN <<[node |-> Len(full_arena(cs, upper)),
                         best_child |-> 0]>>
                 ELSE <<>>]
    /\ child_1 = [t \in Threads |-> nullptr]
    /\ child_2 = [t \in Threads |-> nullptr]
    /\ my_slot = [t \in Threads |-> IF t = 1 THEN MaxChildren ELSE 0]
    /\ seen = [t \in Threads |-> <<Zero, 0>>]
    /\ got = [t \in Threads |-> "success"]
    /\ phase = "build"
    /\ stream = <<>>
    /\ input = <<>>
    /\ loaded = <<>>
    /\ loaded_root = nullptr
    /\ frame = in_frame("loop", Len(full_arena(cs, upper)), cs,
                        loop_start(cs, 0), pass_start(loop_start(cs, 0)),
                        0, Zero)

SplitInit ==
    \E cs \in [1 .. MaxChildren + 1 -> Points] :
        \E upper \in BOOLEAN : SplitStart(cs, upper)

\* what a statement inside the 2-means leaves as it is
outside_loop ==
    <<tree_vars, job_vars, pc, index, data, call_vars, phase, stream, input,
      loaded, loaded_root>>

\* lines 246-260: the loop goes on, and a pass begins
EnterPass ==
    /\ frame.stage = "loop"
    /\ still_moving(frame.k.old_sum_distance, frame.k.new_sum_distance)
    /\ frame' = [frame EXCEPT !.stage = "shift",
                              !.half = half_distance(frame.k.centroid),
                              !.s = pass_start(frame.k),
                              !.which = 0]
    /\ UNCHANGED outside_loop

\* line 246: the loop ends
LeaveLoop ==
    /\ frame.stage = "loop"
    /\ ~still_moving(frame.k.old_sum_distance, frame.k.new_sum_distance)
    /\ frame' = [frame EXCEPT !.stage = "populate"]
    /\ UNCHANGED outside_loop

\* lines 266-268: the variables of the pass with the bounds of child which
\* moved
shifted(s, delta, which) ==
    [s EXCEPT
       !.distance_to_assignment[which + 1] =
          moved_bounds(s, delta, which).to_assignment,
       !.distance_to_other[which + 1] =
          moved_bounds(s, delta, which).to_other]

\* lines 266-268: the bounds of the child are moved
ShiftBounds ==
    /\ frame.stage = "shift"
    /\ frame' = [frame EXCEPT
                   !.stage = "test",
                   !.s = shifted(frame.s, frame.k.delta, frame.which)]
    /\ UNCHANGED outside_loop

\* lines 269-304: the child is left where it is, or placed
AssignChild ==
    /\ frame.stage = "test"
    /\ frame' = [frame EXCEPT
                   !.stage = IF frame.which = MaxChildren THEN "means"
                             ELSE "shift",
                   !.which = @ + 1,
                   !.s = assign_child(frame.cs, frame.k.centroid, frame.half,
                           frame.s, frame.which,
                           frame.s.assignment[frame.which + 1],
                           frame.s.distance_to_assignment[frame.which + 1],
                           frame.s.distance_to_other[frame.which + 1])]
    /\ UNCHANGED outside_loop

\* lines 310-332: the new centroids and how far they moved
NewCentroids ==
    /\ frame.stage = "means"
    /\ frame' = [frame EXCEPT
                   !.stage = "loop",
                   !.k = after_pass(frame.cs, frame.k, frame.s)]
    /\ UNCHANGED outside_loop

\* lines 338-344: the two new nodes get the children of their clusters
Populate ==
    /\ frame.stage = "populate"
    /\ nodes' = Append(Append(nodes,
                   filled(nodes, frame.me, frame.k.assignment, 0)),
                   filled(nodes, frame.me, frame.k.assignment, 1))
    /\ child_1' = [child_1 EXCEPT ![1] = Len(nodes) + 1]
    /\ child_2' = [child_2 EXCEPT ![1] = Len(nodes) + 2]
    /\ frame' = [frame EXCEPT
                   !.stage = IF two_clusters(frame.k) THEN "done"
                             ELSE "refill"]
    /\ UNCHANGED <<root, split_count, job_vars, pc, index, data, context,
                   path, my_slot, seen, got, phase, stream, input, loaded,
                   loaded_root>>

\* lines 368-390: the split failed, and the two new nodes are filled again
Refill ==
    /\ frame.stage = "refill"
    /\ nodes' = [nodes EXCEPT
                   ![child_1[1]] =
                      filled_over(nodes, frame.me, partition(frame.k), 0,
                                  emptied(@)),
                   ![child_2[1]] =
                      filled_over(nodes, frame.me, partition(frame.k), 1,
                                  emptied(@))]
    /\ frame' = [frame EXCEPT !.stage = "done"]
    /\ UNCHANGED <<root, split_count, job_vars, pc, index, data, call_vars,
                   phase, stream, input, loaded, loaded_root>>

SplitNext ==
    \/ EnterPass \/ LeaveLoop \/ ShiftBounds \/ AssignChild
    \/ NewCentroids \/ Populate \/ Refill

SplitSpec == SplitInit /\ [][SplitNext]_vars

\* The thread that is in split goes on to its next statement: nothing in
\* split waits for another thread.
FairSplitSpec == SplitSpec /\ WF_vars(SplitNext)

(***************************************************************************)
(* What the claims are stated with: the tree as it is seen from the root.  *)
(***************************************************************************)
\* the leaves below node me, in child order, one entry for each path to one
RECURSIVE leaf_list(_, _)
leaf_list(ns, me) ==
    IF me = nullptr THEN <<>>
    ELSE IF isleaf(ns[me]) THEN <<me>>
    ELSE LET RECURSIVE below(_, _)
             below(who, list) ==
                 IF who >= number_of_children(ns[me]) THEN list
                 ELSE below(who + 1,
                            list \o leaf_list(ns, ns[me].child[who + 1]))
         IN  below(0, <<>>)

\* the nodes at and below node me
RECURSIVE reachable(_, _)
reachable(ns, me) ==
    IF me = nullptr THEN {}
    ELSE IF isleaf(ns[me]) THEN {me}
    ELSE {me} \cup UNION {reachable(ns, ns[me].child[who]) :
                            who \in 1 .. number_of_children(ns[me])}

\* the depths at which there is a leaf below node me, me being at depth
RECURSIVE leaf_depths(_, _, _)
leaf_depths(ns, me, depth) ==
    IF me = nullptr THEN {}
    ELSE IF isleaf(ns[me]) THEN {depth}
    ELSE UNION {leaf_depths(ns, ns[me].child[who], depth + 1) :
                  who \in 1 .. number_of_children(ns[me])}

internal(ns) == {me \in reachable(ns, root) : ~isleaf(ns[me])}

\* no push_back is in progress
Quiescent == \A t \in Running : pc[t] \in {"work", "exit"}

\* the jobs whose push_back was called
called == {job \in DOMAIN work_list : has_been_processed[job]}

\* thread t is between a successful take_lock and its release_lock
Holding(t) ==
    \/ pc[t] \in {"first_root", "first_mean", "first_release", "last_slot",
                  "split", "replace", "append", "split_node", "release",
                  "new_root", "root_release"}
    \/ pc[t] \in {"mean", "mean_write"} /\ got[t] = "split"

\* C1: once every push_back has returned, the leaves reachable from the
\* root are as many as the calls, no leaf is reached twice, and each
\* inserted vector is the centroid of as many leaves as calls inserted it.
C1_InsertCount ==
    Quiescent =>
      /\ Len(leaf_list(nodes, root)) = Cardinality(called)
      /\ Cardinality(reachable(nodes, root) \cap
                     {me \in DOMAIN nodes : isleaf(nodes[me])})
           = Cardinality(called)
      /\ \A v \in Values :
           Cardinality({me \in reachable(nodes, root) :
                          isleaf(nodes[me]) /\ nodes[me].centroid = FromInt(v)})
             = Cardinality({job \in called : work_list[job] = v})

\* two threads have inserted all the jobs, and both went for the slot past
\* the end of the same node
W1_InsertCount ==
    /\ thread_count > 1
    /\ \A t \in Running : pc[t] = "exit"
    /\ phase = "build"
    /\ Cardinality(called) = MaxJobs
    /\ \E me \in DOMAIN nodes : nodes[me].children > MaxChildren + 1

\* C2: at most one thread is between its successful take_lock and its
\* release_lock, and while one is the split counter says begin = end + 1.
C2_OneHolder ==
    /\ Cardinality({t \in Running : Holding(t)}) <= 1
    /\ \A t \in Running :
         Holding(t) => /\ split_count[1] = split_count[2] + 1
                       /\ split_count = context[t]

\* one thread holds the lock while the other is at its take_lock
W2_OneHolder ==
    \E t, u \in Running :
        /\ Holding(t)
        /\ pc[u] = "leaf_lock"
        /\ context[u][1] = context[u][2]

\* C3: under fair scheduling every thread gets through the list, so every
\* push_back returns, and a push_back returns only when its last attempt
\* has ended in success.
C3_Returns ==
    /\ <>[](/\ \A t \in Running : pc[t] = "exit"
            /\ \A job \in DOMAIN work_list : has_been_processed[job])
    /\ [][\A t \in Running :
            (pc[t] \notin {"work", "exit"} /\ pc'[t] \in {"work", "exit"})
              => got'[t] = "success"]_vars

\* a thread is sent round the loop of push_back again by a lock it found
\* taken, while the other thread holds it
W3_Returns ==
    \E t, u \in Running :
        /\ pc[t] = "attempt"
        /\ got[t] = "retry"
        /\ Holding(u)

\* C4: in a quiescent state all the leaves reachable from the root are at
\* the same depth.
C4_Balance == Quiescent => Cardinality(leaf_depths(nodes, root, 0)) <= 1

\* a quiescent tree of several threads with a root over internal nodes
W4_Balance ==
    /\ Quiescent
    /\ thread_count > 1
    /\ leaf_depths(nodes, root, 0) = {2}

C6_LeafCount ==
    phase # "build" =>
      \A me \in reachable(nodes, root) :
          nodes[me].leaves_below_this_point = Len(leaf_list(nodes, me))

\* normalise_counts has run on a tree that several threads built
W6_LeafCount ==
    /\ phase = "normalised"
    /\ thread_count > 1
    /\ Cardinality(internal(nodes)) >= 3

\* the mean of the centroids of the children of node me, each weighted by
\* the child's leaves_below_this_point
weighted_mean(ns, me) ==
    LET RECURSIVE add(_, _, _)
        add(who, sum, weight) ==
            IF who > number_of_children(ns[me])
            THEN IF weight = 0 THEN NaN ELSE Frac[sum[1], sum[2] * weight]
            ELSE add(who + 1,
                     FAdd[sum, FMul[ns[ns[me].child[who]].centroid,
                       FromInt(ns[ns[me].child[who]].leaves_below_this_point)]],
                     weight + ns[ns[me].child[who]].leaves_below_this_point)
    IN  add(1, Zero, 0)

\* C7: after the inserts have returned and normalise_counts has run, the
\* centroid of every reachable internal node is the mean of its children's
\* centroids weighted by their leaves_below.
C7_WeightedMean ==
    phase # "build" =>
      \A me \in internal(nodes) :
          nodes[me].centroid = weighted_mean(nodes, me)

\* the tree below node me of the arena ns, without the node numbers
RECURSIVE shape(_, _)
shape(ns, me) ==
    IF me = nullptr THEN <<>>
    ELSE [children |-> number_of_children(ns[me]),
          leaves_below_this_point |-> ns[me].leaves_below_this_point,
          centroid |-> ns[me].centroid,
          child |-> IF isleaf(ns[me]) THEN <<>>
                    ELSE [who \in 1 .. number_of_children(ns[me]) |->
                            shape(ns, ns[me].child[who])]]

\* C8: the tree read back from the text of a normalised tree that inserts
\* have made has the shape of that tree and, at every node, its children
\* count, its leaves_below and its centroid.
C8_RoundTrip ==
    (phase = "loaded" /\ input = stream /\ work_list # <<>>) =>
      shape(loaded, loaded_root) = shape(nodes, root)

\* the tree below node me of the arena ns as its text says it is: each
\* centroid with the digits that the text keeps of it
RECURSIVE text_shape(_, _)
text_shape(ns, me) ==
    IF me = nullptr THEN <<>>
    ELSE [children |-> number_of_children(ns[me]),
          leaves_below_this_point |-> ns[me].leaves_below_this_point,
          centroid |-> written(ns[me].centroid),
          child |-> IF isleaf(ns[me]) THEN <<>>
                    ELSE [who \in 1 .. number_of_children(ns[me]) |->
                            text_shape(ns, ns[me].child[who])]]

\* C8, with the centroid as the text has it: the tree read back from the
\* text of a normalised tree that inserts have made has the shape of that
\* tree and, at every node, its children count, its leaves_below and its
\* centroid rounded to the significant digits that the text keeps.
C8_TextRoundTrip ==
    (phase = "loaded" /\ input = stream /\ work_list # <<>>) =>
      shape(loaded, loaded_root) = text_shape(nodes, root)

\* the whole text of a tree of several threads was read back, and the
\* text has not all the digits of a centroid of the tree
W8_TextRoundTrip ==
    /\ phase = "loaded"
    /\ input = stream
    /\ thread_count > 1
    /\ \E me \in reachable(nodes, root) :
          written(nodes[me].centroid) # nodes[me].centroid

\* C11: deserialise gives no tree when the text it is given is cut short.
C11_ParseError ==
    (phase = "loaded" /\ input # stream) => loaded_root = nullptr

\* C12: a thread whose copy of the split counter, made at entry, has
\* begin # end gets no leaf into the tree: a thread that is updating the
\* means after its leaf went in, and did not take the lock, came in with
\* begin = end.
C12_EarlyAbort ==
    \A t \in Running :
        (pc[t] \in {"mean", "mean_write"} /\ ~Holding(t))
          => context[t][1] = context[t][2]

\* C13: a thread whose children++ gave it a slot above max_children does
\* not get to split the node: no thread that has taken the lock in
\* add_to_leaf has such a slot.
C13_LateSlot ==
    \A t \in Running : pc[t] = "last_slot" => my_slot[t] <= MaxChildren

\* node me is the parent of leaves
leaf_parent(ns, me) ==
    /\ ~isleaf(ns[me])
    /\ ns[me].child[1] # nullptr
    /\ isleaf(ns[ns[me].child[1]])

\* C14: two threads that are about to fill a slot of the same node have
\* different slots; a slot of a parent of leaves is written only while it
\* is empty; and the slot max_children is written only by the thread that
\* has the node's split state and the split lock.
C14_OneWriter ==
    [][/\ \A t, u \in Running :
            (t # u /\ pc[t] = "publish" /\ pc[u] = "publish"
               /\ top(t).node = top(u).node)
              => my_slot[t] # my_slot[u]
       /\ \A me \in DOMAIN nodes :
            leaf_parent(nodes, me) =>
              \A which \in 1 .. MaxChildren + 1 :
                  nodes'[me].child[which] # nodes[me].child[which] =>
                    /\ nodes[me].child[which] = nullptr
                    /\ which = MaxChildren + 1 =>
                         \E t \in Running :
                             /\ pc[t] = "last_slot"
                             /\ Holding(t)
                             /\ top(t).node = me
                             /\ nodes[me].state = "split"]_vars

\* two threads have each a slot of the same node to fill: one a slot
\* below max_children, the other, which holds the lock, the last slot
W14_OneWriter ==
    \E t, u \in Running :
        /\ pc[t] = "publish"
        /\ pc[u] = "last_slot"
        /\ top(t).node = top(u).node

\* C15: a thread that has set a node's state to split and then finds the
\* lock not free changes nothing by its take_lock, and then sets the state
\* back to unsplit, changes nothing else of the nodes, the root or the
\* split counter, and has retry for its result.
C15_LockFailed ==
    [][\A t \in Running :
         /\ (/\ pc[t] = "leaf_lock"
             /\ pc'[t] # pc[t]
             /\ (context[t][1] # context[t][2] \/ split_count # context[t]))
              => /\ pc'[t] = "unlock_state"
                 /\ UNCHANGED <<nodes, root, split_count>>
         /\ (pc[t] = "unlock_state" /\ pc'[t] # pc[t])
              => /\ nodes' = [nodes EXCEPT ![top(t).node].state = "unsplit"]
                 /\ UNCHANGED <<root, split_count>>
                 /\ got'[t] = "retry"
                 /\ pc'[t] = "attempt"]_vars

\* a thread has set the state of a node and found the lock taken
W15_LockFailed ==
    \E t \in Running :
        /\ pc[t] = "unlock_state"
        /\ nodes[top(t).node].state = "split"

\* thread t is in an attempt that has neither put its leaf in the tree nor
\* taken the lock
Undecided(t) ==
    pc[t] \in {"attempt", "enter", "first_lock", "descend", "leaf",
               "cas_state", "leaf_lock", "unlock_state"}

\* C16: an attempt ends in retry only before it has put its leaf in the
\* tree or taken the lock, and up to there each of its steps leaves the
\* root, the split counter and every node's centroid, leaves_below and
\* children as they are, and changes no counter but that of the node it
\* has got to.
C16_RetryFrame ==
    [][\A t \in Running :
         /\ (pc'[t] # pc[t] /\ pc'[t] = "attempt" /\ got'[t] = "retry")
              => pc[t] \in {"first_lock", "cas_state", "unlock_state"}
         /\ (/\ Undecided(t)
             /\ pc'[t] # pc[t]
             /\ pc'[t] \notin {"first_root", "last_slot"})
              => /\ UNCHANGED <<root, split_count>>
                 /\ DOMAIN nodes' = DOMAIN nodes
                 /\ \A me \in DOMAIN nodes :
                      /\ nodes'[me].centroid = nodes[me].centroid
                      /\ nodes'[me].leaves_below_this_point
                           = nodes[me].leaves_below_this_point
                      /\ nodes'[me].child = nodes[me].child
                      /\ nodes'[me].children # nodes[me].children
                           => pc[t] = "leaf" /\ me = top(t).node]_vars

\* a thread is sent back by a node whose state another thread has set,
\* after its children++ on that node
W16_RetryFrame ==
    \E t \in Running :
        /\ pc[t] = "attempt"
        /\ got[t] = "retry"
        /\ \E me \in DOMAIN nodes : nodes[me].children > MaxChildren + 1

\* the children in the slots of node me
kids(ns, me) ==
    {ns[me].child[which] : which \in 1 .. MaxChildren + 1} \ {nullptr}

\* C17: under fair scheduling the lock is free again and again, so a
\* thread that holds it comes to hold it no more; the end count of the
\* split counter is moved only by a thread that holds the lock and by that
\* step holds it no more; and that step counts one end, leaving
\* begin = end, and is made once the root is set, or once the two halves
\* are children of a node of the tree that has room for them, or once
\* they are the two children of the root.
C17_OneRelease ==
    /\ []<>(\A t \in Running : ~Holding(t))
    /\ [][/\ split_count'[2] # split_count[2] =>
              \E t \in Running : Holding(t) /\ ~Holding(t)'
          /\ \A t \in Running :
               (Holding(t) /\ ~Holding(t)') =>
                 /\ split_count' = <<split_count[1], split_count[2] + 1>>
                 /\ split_count'[1] = split_count'[2]
                 /\ pc[t] \in {"first_release", "release", "root_release"}
                 /\ pc[t] = "first_release" => root # nullptr
                 /\ pc[t] = "release" =>
                      /\ top(t).node \in reachable(nodes, root)
                      /\ nodes[top(t).node].children <= MaxChildren
                      /\ {child_1[t], child_2[t]}
                           \subseteq kids(nodes, top(t).node)
                 /\ pc[t] = "root_release" =>
                      /\ nodes[root].child[1] = child_1[t]
                      /\ nodes[root].child[2] = child_2[t]]_vars

\* a thread is about to release the lock at a node that took the second
\* half of a split below it without overflowing
W17_OneRelease == \E t \in Running : pc[t] = "release"

\* C18: when the thread that holds the lock is about to put the first half
\* in place of the child that was split, the parent is reachable from the
\* root and the slot still holds the node whose children the two halves
\* have between them.
C18_ReturnPath ==
    \A t \in Running :
        pc[t] = "replace" =>
          /\ top(t).node \in reachable(nodes, root)
          /\ nodes[top(t).node].child[top(t).best_child + 1] # nullptr
          /\ kids(nodes, nodes[top(t).node].child[top(t).best_child + 1])
               = kids(nodes, child_1[t]) \cup kids(nodes, child_2[t])

\* a thread is about to replace a child while another thread, which came
\* in before the split, is on its way down
W18_ReturnPath ==
    \E t, u \in Running :
        /\ pc[t] = "replace"
        /\ pc[u] \in {"descend", "leaf", "publish", "cas_state", "leaf_lock"}
        /\ context[u][1] = context[u][2]

\* C19: the root is set from null by a thread that holds the lock, to a
\* node with one child, the leaf of that thread's vector; and a thread
\* that makes a first root finds the root null.
C19_FirstRoot ==
    [][/\ (root = nullptr /\ root' # nullptr) =>
              \E t \in Running :
                  /\ pc[t] = "first_root"
                  /\ Holding(t)
                  /\ ~isleaf(nodes'[root'])
                  /\ nodes'[root'].children = 1
                  /\ kids(nodes', root') = {index[t] + 1}
                  /\ isleaf(nodes'[index[t] + 1])
                  /\ nodes'[index[t] + 1].centroid = data[t]
       /\ \A t \in Running :
            (pc[t] = "first_root" /\ pc'[t] # pc[t]) => root = nullptr]_vars

\* one thread is making the first root while the other, which also found
\* the root null, is at its take_lock
W19_FirstRoot ==
    \E t, u \in Running :
        /\ pc[t] = "first_mean"
        /\ pc[u] = "first_lock"

\* C20: when the root is replaced, the new root has two children, which
\* are the two halves, which have the children of the old root between
\* them; the thread that sets it holds the lock before and after; and
\* every leaf is one level deeper than it was.
C20_NewRoot ==
    [][(root # nullptr /\ root' # root) =>
         \E t \in Running :
             /\ pc[t] = "new_root"
             /\ Holding(t) /\ Holding(t)'
             /\ split_count' = split_count
             /\ nodes'[root'].children = 2
             /\ nodes'[root'].child[1] = child_1[t]
             /\ nodes'[root'].child[2] = child_2[t]
             /\ kids(nodes', root') = {child_1[t], child_2[t]}
             /\ kids(nodes, root)
                  = kids(nodes', child_1[t]) \cup kids(nodes', child_2[t])
             /\ leaf_depths(nodes', root', 0)
                  = {depth + 1 : depth \in leaf_depths(nodes, root, 0)}]_vars

\* a new root is over two internal nodes that are not parents of leaves
W20_NewRoot ==
    /\ root # nullptr
    /\ nodes[root].children = 2
    /\ leaf_depths(nodes, root, 0) = {3}

\* C21: the split counter has end <= begin <= end + 1, with
\* begin = end + 1 exactly while a thread is between its take_lock and its
\* release_lock; no step makes begin or end less; the step by which a
\* thread comes to hold the lock adds one to begin and leaves end, the step
\* by which it holds it no more adds one to end and leaves begin, and no
\* other step changes the counter.
C21_Counter ==
    [][/\ split_count[2] <= split_count[1]
       /\ split_count[1] <= split_count[2] + 1
       /\ split_count'[2] <= split_count'[1]
       /\ split_count'[1] <= split_count'[2] + 1
       /\ (split_count[1] = split_count[2] + 1)
            <=> (\E t \in Running : Holding(t))
       /\ (split_count'[1] = split_count'[2] + 1)
            <=> (\E t \in Running : Holding(t)')
       /\ split_count'[1] >= split_count[1]
       /\ split_count'[2] >= split_count[2]
       /\ \A t \in Running :
            /\ (~Holding(t) /\ Holding(t)') =>
                 split_count' = <<split_count[1] + 1, split_count[2]>>
            /\ (Holding(t) /\ ~Holding(t)') =>
                 split_count' = <<split_count[1], split_count[2] + 1>>
       /\ split_count' # split_count =>
            \E t \in Running : Holding(t) # Holding(t)']_vars

\* a thread holds the lock for a split that is not the first of the tree,
\* while another thread is in an attempt of its own
W21_Counter ==
    \E t, u \in Running :
        /\ Holding(t)
        /\ split_count[2] >= 1
        /\ pc[u] \in {"enter", "descend", "leaf", "cas_state", "leaf_lock"}

\* thread t is in a call of add_to_node or add_to_leaf on node me
on_node(t, me) == path[t] # <<>> /\ top(t).node = me

\* C22: the state of a node, once split, is never unsplit again.
C22_NeverReverts ==
    [][\A me \in DOMAIN nodes :
         nodes[me].state = "split" => nodes'[me].state = "split"]_vars

\* C22, with the one step that does set the state back: the state of a node
\* goes from split to unsplit only by the step of the thread that set it
\* and then found the lock not free, which holds no lock, while no thread
\* is splitting the node and its last slot is empty; the state of a node
\* whose last slot is filled stays split.
C22_RevertsOnFailedLock ==
    [][\A me \in DOMAIN nodes :
         nodes[me].state = "split" =>
           /\ nodes'[me].state \in {"split", "unsplit"}
           /\ nodes[me].child[MaxChildren + 1] # nullptr =>
                nodes'[me].state = "split"
           /\ nodes'[me].state = "unsplit" =>
                /\ \A u \in Running : Holding(u) => ~on_node(u, me)
                /\ \E t \in Running :
                     /\ pc[t] = "unlock_state"
                     /\ pc'[t] # "unlock_state"
                     /\ on_node(t, me)
                     /\ ~Holding(t)
                     /\ \A u \in Running \ {t} :
                          pc[u] \in {"leaf_lock", "unlock_state"}
                            => ~on_node(u, me)]_vars

\* the state of a node was set and set back, and a later thread has set it
\* again and taken the lock
W22_RevertsOnFailedLock ==
    \E t \in Running :
        /\ pc[t] = "last_slot"
        /\ my_slot[t] > MaxChildren

\* C23: in a quiescent state no node, in the tree or replaced, has a
\* children counter above max_children + 1.
C23_Transient ==
    Quiescent =>
      \A me \in DOMAIN nodes :
          ~isleaf(nodes[me]) => nodes[me].children <= MaxChildren + 1

fresh ==
    {child_1[t] : t \in Running} \cup {child_2[t] : t \in Running}

\* node me was in the tree and two halves have taken its place
replaced(me) ==
    /\ ~isleaf(nodes[me])
    /\ root # nullptr
    /\ me \notin reachable(nodes, root)
    /\ me \notin fresh

\* C25: no field of a node that was replaced by its two halves is written
\* again.
C25_ReplacedFrozen ==
    [][\A me \in DOMAIN nodes : replaced(me) => nodes'[me] = nodes[me]]_vars

\* C26: the thread that splits a leaf-parent starts the split only when
\* every slot of the node is set, so no thread still has a reserved slot of
\* the node to fill, and the children of the two halves are the children
\* of the node, the leaf of every thread that reserved a slot among them.
C26_WaitsForSlots ==
    [][\A t \in Running :
         (pc[t] = "split" /\ pc'[t] # "split") =>
           /\ \A which \in 1 .. MaxChildren + 1 :
                nodes[top(t).node].child[which] # nullptr
           /\ \A u \in Running :
                pc[u] = "publish" => ~on_node(u, top(t).node)
           /\ kids(nodes', child_1'[t]) \cup kids(nodes', child_2'[t])
                = kids(nodes, top(t).node)
           /\ \A u \in Running :
                (on_node(u, top(t).node) /\ pc[u] \in {"mean", "mean_write"}
                   /\ got[u] = "success") =>
                  index[u] + 1 \in kids(nodes', child_1'[t])
                                     \cup kids(nodes', child_2'[t])]_vars

\* a splitter waits at a full leaf-parent for a thread that has reserved a
\* slot and not yet filled it
W26_WaitsForSlots ==
    \E t, u \in Running :
        /\ pc[t] = "split"
        /\ pc[u] = "publish"
        /\ on_node(u, top(t).node)
        /\ ~all_written(nodes[top(t).node])

\* the children that node me counts as its own, in the order of its slots
counted_children(ns, me) ==
    [which \in 1 .. ns[me].children |-> ns[me].child[which]]

\* the children of node me whose index in the node has the given parity
of_parity(ns, me, parity) ==
    LET RECURSIVE pick(_, _)
        pick(which, picked) ==
            IF which > MaxChildren THEN picked
            ELSE pick(which + 1,
                      IF which % 2 = parity
                      THEN Append(picked, ns[me].child[which + 1])
                      ELSE picked)
    IN  pick(0, <<>>)

Range(sequence) == {sequence[at] : at \in DOMAIN sequence}

\* the statements of split and the function the threads call end with the
\* same two nodes
StepwiseSplit ==
    frame.stage = "done" =>
      /\ frame.k = two_means(frame.cs, 0)
      /\ nodes = with_outputs(SubSeq(nodes, 1, frame.me), frame.me, frame.k)

\* C27: split of a full node gives two new nodes of the kind of the node;
\* each of the max_children + 1 children is a child of exactly one of the
\* two, each of the two has a child, and neither has more than
\* max_children.
C27_TwoHalves ==
    frame.stage = "done" =>
      /\ Cardinality(kids(nodes, frame.me)) = MaxChildren + 1
      /\ Range(counted_children(nodes, child_1[1]))
           \cup Range(counted_children(nodes, child_2[1]))
           = kids(nodes, frame.me)
      /\ Range(counted_children(nodes, child_1[1]))
           \cap Range(counted_children(nodes, child_2[1])) = {}
      /\ nodes[child_1[1]].children + nodes[child_2[1]].children
           = MaxChildren + 1
      /\ \A half \in {child_1[1], child_2[1]} :
           /\ nodes[half].children \in 1 .. MaxChildren
           /\ ~isleaf(nodes[half])
           /\ isleaf(nodes[nodes[half].child[1]])
                = isleaf(nodes[nodes[frame.me].child[1]])

\* a split by clusters has ended, and one of the new nodes has more than
\* one child
W27_TwoHalves ==
    /\ frame.stage = "done"
    /\ two_clusters(frame.k)
    /\ \E half \in {child_1[1], child_2[1]} : nodes[half].children > 1

\* C28: when the 2-means ends with an empty cluster, the children go by
\* the parity of their index: the first new node gets the children of even
\* index and the second those of odd index, whatever the clusters were.
C28_ParityFallback ==
    (frame.stage = "done" /\ ~two_clusters(frame.k)) =>
      /\ counted_children(nodes, child_1[1]) = of_parity(nodes, frame.me, 0)
      /\ counted_children(nodes, child_2[1]) = of_parity(nodes, frame.me, 1)

\* a split has ended whose 2-means left a cluster empty
W28_ParityFallback ==
    /\ frame.stage = "done"
    /\ ~two_clusters(frame.k)
    /\ nodes[child_1[1]].children > 0

\* the pass is at a child that is not pruned and is as far from the one
\* centroid as from the other
at_tie ==
    /\ frame.stage = "test"
    /\ ~is_pruned(frame.s.distance_to_assignment[frame.which + 1],
                  frame.s.distance_to_other[frame.which + 1], frame.half)
    /\ FEqual[distance_squared[frame.k.centroid[1],
                               frame.cs[frame.which + 1]],
              distance_squared[frame.k.centroid[2],
                               frame.cs[frame.which + 1]]]

\* C29: a child at equal distances from the two centroids goes to the
\* cluster that holds fewer children at that point of the pass, and to
\* cluster 0 when the two hold as many.
C29_TieToFirst ==
    [][at_tie =>
         frame'.s.assignment[frame.which + 1] =
           IF frame.s.cluster_size[2] < frame.s.cluster_size[1] THEN 1
           ELSE 0]_vars

\* C30: in each pass, before the tests on child i, the upper bound of i
\* grows by the last movement of the centroid of the cluster of i, and the
\* lower bound of i shrinks by the last movement of the centroid of the
\* other cluster.
C30_BoundsMove ==
    [][frame.stage = "shift" =>
         /\ frame'.s.distance_to_assignment[frame.which + 1] =
              FAdd[frame.s.distance_to_assignment[frame.which + 1],
                   frame.k.delta[frame.s.assignment[frame.which + 1] + 1]]
         /\ frame'.s.distance_to_other[frame.which + 1] =
              FSub[frame.s.distance_to_other[frame.which + 1],
                   frame.k.delta[(1 - frame.s.assignment[frame.which + 1])
                                   + 1]]]_vars

swapped(assignment) ==
    [which \in DOMAIN assignment |-> 1 - assignment[which]]

\* C32: the 2-means of split, which prunes by the bounds, ends with the
\* assignment that the plain 2-means ends with from the same two initial
\* centroids, or with that assignment with the two labels swapped.
C32_SameAsPlain ==
    frame.stage = "done" =>
      \/ frame.k.assignment = plain_two_means(frame.cs, 0).assignment
      \/ frame.k.assignment
           = swapped(plain_two_means(frame.cs, 0).assignment)

\* C33: normalise_counts sets the centroid of every internal node of the
\* tree to the mean of its children's centroids weighted by their
\* leaves_below, whatever the centroid was before.
C33_CentroidsRecomputed ==
    [][(phase = "build" /\ phase' = "normalised") =>
         \A me \in DOMAIN nodes :
             (root # nullptr /\ me \in reachable(nodes, root)
                /\ ~isleaf(nodes[me])) =>
               nodes'[me].centroid = weighted_mean(nodes', me)]_vars

\* C34: in a run of one thread, after every push_back and with no
\* normalise_counts, every internal node of the tree has in leaves_below
\* the number of leaves below it, and the root has the number of push_back
\* calls made so far.
C34_CountsKept ==
    (thread_count = 1 /\ Quiescent /\ phase = "build" /\ root # nullptr) =>
      /\ \A me \in internal(nodes) :
           nodes[me].leaves_below_this_point = Len(leaf_list(nodes, me))
      /\ nodes[root].leaves_below_this_point = Cardinality(called)

\* one thread has inserted all the jobs of the longest list, and a node
\* under the root was split on the way
W34_CountsKept ==
    /\ thread_count = 1
    /\ pc[1] = "exit"
    /\ phase = "build"
    /\ Cardinality(called) = MaxSoloJobs
    /\ Cardinality(internal(nodes)) >= 4

\* the least depth at which a tree of the given branching factor has room
\* for so many leaves: the logarithm, rounded up
RECURSIVE ceil_log(_, _, _, _)
ceil_log(branching, leaves, depth, room) ==
    IF room >= leaves THEN depth
    ELSE ceil_log(branching, leaves, depth + 1, room * branching)

\* one thread has inserted the same vector as many times as the work list
\* is long, and normalise_counts has run
same_inserted ==
    /\ thread_count = 1
    /\ phase = "normalised"
    /\ Len(work_list) >= 2
    /\ \A job \in DOMAIN work_list : work_list[job] = work_list[1]

\* C35: after one thread has inserted the same vector n times and the
\* tree is normalised, the tree has n leaves, all at the depth that is the
\* logarithm of n to the base of the branching factor, rounded up (depth 3
\* for 20 inserts at branching factor 3).
C35_LogDepth ==
    same_inserted =>
      /\ Len(leaf_list(nodes, root)) = Len(work_list)
      /\ leaf_depths(nodes, root, 0)
           = {ceil_log(MaxChildren, Len(work_list), 0, 1)}

\* C36: when the children of a full node all have the same centroid, split
\* goes through the fallback: the 2-means leaves a cluster empty, the
\* first new node gets the children of even index and the second those of
\* odd index.
C36_IdenticalAlternate ==
    (/\ frame.stage = "done"
     /\ \A which \in 1 .. MaxChildren + 1 :
          IsFinite(frame.cs[which]) /\ frame.cs[which] = frame.cs[1]) =>
      /\ ~two_clusters(frame.k)
      /\ counted_children(nodes, child_1[1]) = of_parity(nodes, frame.me, 0)
      /\ counted_children(nodes, child_2[1]) = of_parity(nodes, frame.me, 1)

\* C37: in every state of every run, quiescent or not, every internal node
\* that is reached from the root through the slots below the clamped child
\* count has a child in its first slot, so that the reads of child[0] in
\* add_to_node and closest find a node.
C37_FirstChildSet ==
    \A me \in internal(nodes) :
        /\ nodes[me].child[1] # nullptr
        /\ nodes[nodes[me].child[1]].state # "unused"

\* a thread is on its way down the tree while a node of the tree has a
\* reserved slot, below its clamped count, that is not yet filled
W37_FirstChildSet ==
    \E t \in Running :
        /\ pc[t] \in {"enter", "descend"}
        /\ \E me \in internal(nodes) :
             \E which \in 1 .. number_of_children(nodes[me]) :
                 nodes[me].child[which] = nullptr

\* node me was full and the split that its last slot was filled for has
\* been made
was_split(me) ==
    /\ ~isleaf(nodes[me])
    /\ nodes[me].child[MaxChildren + 1] # nullptr
    /\ \A t \in Running :
         pc[t] \in {"split", "split_node"} => ~on_node(t, me)

\* C38: a node is split once at most: once the split of a node has made
\* its two halves, no thread that still has the node on its path fills a
\* slot of it, gives it a child or comes to split it again.
C38_SplitOnce ==
    [][\A me \in DOMAIN nodes :
         was_split(me) =>
           /\ nodes'[me].child = nodes[me].child
           /\ isleaf(nodes[nodes[me].child[1]]) => nodes'[me].state = "split"
           /\ \A t \in Running :
                (path'[t] # <<>> /\ path'[t][Len(path'[t])].node = me) =>
                  pc'[t] \notin {"publish", "last_slot", "split", "append",
                                 "replace", "split_node"}]_vars

\* a thread has come with an old path to a node that was split and
\* replaced, and has taken a number from its children counter
W38_SplitOnce ==
    \E t \in Running :
        /\ pc[t] = "cas_state"
        /\ was_split(top(t).node)
        /\ replaced(top(t).node)

\* C39: normalise_counts on a tree that has no root returns, and leaves
\* the tree as it is.
C39_EmptyNormalise ==
    [][(phase = "build" /\ root = nullptr /\ phase' # "build") =>
         /\ phase' = "normalised"
         /\ nodes' = nodes
         /\ root' = nullptr]_vars

\* thread t is inside a call of push_back
in_push_back(t) == t \in Running /\ pc[t] \notin {"work", "exit"}

\* C40: every job is claimed by one worker: a claim is never taken back, a
\* step claims at most one job, a worker calls push_back only in the step
\* that turns has_been_processed of its job from false to true and calls it
\* with the vector of that job, no two workers are in push_back for the
\* same job, and when the workers have all returned every job was claimed.
C40_ClaimedOnce ==
    [][/\ \A job \in DOMAIN work_list :
            has_been_processed[job] => has_been_processed'[job]
       /\ Cardinality({job \in DOMAIN work_list :
                         ~has_been_processed[job]
                         /\ has_been_processed'[job]}) <= 1
       /\ \A job \in DOMAIN work_list :
            (~has_been_processed[job] /\ has_been_processed'[job]) =>
              Cardinality({t \in Running :
                             /\ pc[t] = "work"
                             /\ pc'[t] = "attempt"
                             /\ index'[t] + 1 = job}) = 1
       /\ \A t \in Running :
            (pc[t] = "work" /\ pc'[t] = "attempt") =>
              /\ index'[t] + 1 \in DOMAIN work_list
              /\ ~has_been_processed[index'[t] + 1]
              /\ has_been_processed'[index'[t] + 1]
              /\ data'[t] = FromInt(work_list[index'[t] + 1])
       /\ \A t \in Running : \A other \in Running :
            (in_push_back(t)' /\ in_push_back(other)' /\ t # other) =>
              index'[t] # index'[other]
       /\ joined' => called' = DOMAIN work_list]_vars

\* two workers are in push_back at once, for the last two jobs of the
\* longest list, and the second of them went past jobs that the first had
\* claimed
W40_ClaimedOnce ==
    /\ thread_count > 1
    /\ Len(work_list) = MaxJobs
    /\ called = DOMAIN work_list
    /\ \A t \in Running : in_push_back(t)
    /\ index[1] # index[2]
    /\ index[2] = MaxJobs - 2

\* the queries that closest is asked: the values and the points half way
Queries == {Frac[q, 2] : q \in 0 .. 2 * MaxValue}

\* the squared distance from what to child which of node me
distance_to(ns, me, which, what) ==
    distance_squared[what, ns[ns[me].child[which + 1]].centroid]

\* C9: on a quiescent tree closest gives, at every internal node and for
\* every query, a child that no other child is nearer than, and the lowest
\* of the children that are as near.
C9_Closest ==
    Quiescent =>
      \A me \in internal(nodes) : \A what \in Queries :
          /\ closest(nodes, me, what) \in 0 .. number_of_children(nodes[me]) - 1
          /\ \A other \in 0 .. number_of_children(nodes[me]) - 1 :
               /\ ~FLess[distance_to(nodes, me, other, what),
                         distance_to(nodes, me, closest(nodes, me, what), what)]
               /\ other < closest(nodes, me, what) =>
                    FLess[distance_to(nodes, me, closest(nodes, me, what), what),
                          distance_to(nodes, me, other, what)]

\* a quiescent node with two children as near to a query as each other
W9_Closest ==
    /\ Quiescent
    /\ \E me \in internal(nodes) : \E what \in Queries :
         /\ nodes[me].children >= 2
         /\ distance_to(nodes, me, 0, what) = distance_to(nodes, me, 1, what)

(***************************************************************************)
(* push_back as a function: what one call makes of a tree when no other    *)
(* thread runs, following add_to_node down and back up in one piece.       *)
(***************************************************************************)
\* add_to_leaf when the slot is free
leaf_added(ns, me, what, job) ==
    [arena |-> [ns EXCEPT ![job] = new_leaf(what),
                          ![me].child[ns[me].children + 1] = job,
                          ![me].children = @ + 1],
     result |-> "success", child_1 |-> nullptr, child_2 |-> nullptr]

\* add_to_leaf and add_to_node when the node is split: the arena full has
\* the node with one child too many
split_of(full, me) ==
    [arena |-> split_and_mean(full, me),
     result |-> "split", child_1 |-> Len(full) + 1, child_2 |-> Len(full) + 2]

\* add_to_leaf, alone in the tree
leaf_call(ns, me, what, job) ==
    IF ns[me].children < MaxChildren
    THEN leaf_added(ns, me, what, job)
    ELSE split_of([ns EXCEPT ![job] = new_leaf(what),
                             ![me].child[MaxChildren + 1] = job,
                             ![me].children = @ + 1,
                             ![me].state = "split"], me)

\* add_to_node, lines 556-571: the two halves of a child take its place
absorbed(below, me, best_child) ==
    IF below.result # "split" THEN below
    ELSE IF below.arena[me].children + 1 > MaxChildren
    THEN split_of([below.arena EXCEPT
                     ![me].child[best_child + 1] = below.child_1,
                     ![me].child[below.arena[me].children + 1] = below.child_2,
                     ![me].children = @ + 1], me)
    ELSE [below EXCEPT
            !.arena = [below.arena EXCEPT
                         ![me].child[best_child + 1] = below.child_1,
                         ![me].child[below.arena[me].children + 1] =
                             below.child_2,
                         ![me].children = @ + 1],
            !.result = "success"]

\* add_to_node, lines 593-594: the mean and the count take the new leaf in
mean_moved(below, me, what) ==
    [below EXCEPT
       !.arena = [below.arena EXCEPT
                    ![me].centroid = fused_subtract_divide[
                        below.arena[me].centroid, what,
                        below.arena[me].leaves_below_this_point + 1],
                    ![me].leaves_below_this_point = @ + 1]]

\* node::add_to_node(context, data, child_1, child_2), alone in the tree
RECURSIVE node_call(_, _, _, _)
node_call(ns, me, what, job) ==
    mean_moved(
      IF isleaf(ns[ns[me].child[1]])
      THEN leaf_call(ns, me, what, job)
      ELSE absorbed(node_call(ns, ns[me].child[closest(ns, me, what) + 1],
                              what, job),
                    me, closest(ns, me, what)),
      me, what)

\* attempt_push_back, lines 65-83: a split that reached the root
rooted(tree, below) ==
    IF below.result = "split"
    THEN [arena |-> with_new_root(below.arena, below.child_1, below.child_2),
          root |-> Len(below.arena) + 1]
    ELSE [arena |-> below.arena, root |-> tree.root]

\* k_tree::push_back(memory, data) for the vector of job, alone in the tree
push_back(tree, what, job) ==
    IF tree.root = nullptr
    THEN [arena |-> mean_at(Append([tree.arena EXCEPT ![job] = new_leaf(what)],
                                   new_node(job)),
                            Len(tree.arena) + 1),
          root |-> Len(tree.arena) + 1]
    ELSE rooted(tree, node_call(tree.arena, tree.root, what, job))

\* the tree after push_back of the first jobs of list, one after another
RECURSIVE pushed(_, _)
pushed(list, jobs) ==
    IF jobs = 0 THEN [arena |-> empty_arena(Len(list)), root |-> nullptr]
    ELSE push_back(pushed(list, jobs - 1), FromInt(list[jobs]), jobs)

\* the tree without the node numbers, with the counters as they are
RECURSIVE exact_shape(_, _)
exact_shape(ns, me) ==
    IF me = nullptr THEN <<>>
    ELSE [children |-> ns[me].children,
          leaves_below_this_point |-> ns[me].leaves_below_this_point,
          centroid |-> ns[me].centroid,
          child |-> IF isleaf(ns[me]) THEN <<>>
                    ELSE [who \in 1 .. number_of_children(ns[me]) |->
                            exact_shape(ns, ns[me].child[who])]]

shape_of(tree) == exact_shape(tree.arena, tree.root)

\* C10: a single-threaded run has, after each of its inserts, the tree that
\* push_back makes of the vectors inserted so far, so that two such runs
\* on the same vectors have the same tree: shape, child order, counts and
\* centroids.
C10_Deterministic ==
    (thread_count = 1 /\ Quiescent /\ phase = "build") =>
      exact_shape(nodes, root) = shape_of(pushed(work_list, Cardinality(called)))

\* one thread has inserted all the jobs of the longest list, and the tree
\* has a root over internal nodes over internal nodes
W10_Deterministic ==
    /\ thread_count = 1
    /\ pc[1] = "exit"
    /\ phase = "build"
    /\ Cardinality(called) = MaxSoloJobs
    /\ leaf_depths(nodes, root, 0) = {3}

====
